---- MODULE Spec2Model ----
(***************************************************************************)
(* Social account linking and OAuth credential lifecycle of palmsgig:      *)
(* AccountService (src/src/social_media/services/account_service.py) over  *)
(* the table of SocialAccount rows, with the platform clients and the      *)
(* OAuth service as collaborators whose outcomes are inputs of the actions.*)
(*                                                                         *)
(* One action is one call of a public method of AccountService, taken as a *)
(* whole: the rows it commits, what it returns or raises, and the calls it *)
(* made on its collaborators.                                              *)
(* The user-scoped wallet endpoints (src/src/api_gateway/routers/          *)
(* my_wallet.py) are modelled the same way over the ledger's rows.         *)
(***************************************************************************)
EXTENDS Integers, Sequences, FiniteSets, TLC

VARIABLES
    links,      \* the committed SocialAccount rows
    nextId,     \* the next database id the table hands out
    last,       \* the call being answered: what it returned or raised, and the
                \* calls it made on its collaborators; idle once it is answered
    sessions,   \* the calls that are between two of their database round
                \* trips, each with what its session has read so far
    wallets,    \* the committed Wallet rows of the payment ledger
    transactions \* the committed Transaction rows of the payment ledger

vars == <<links, nextId, last, sessions, wallets, transactions>>

-----------------------------------------------------------------------------
(* Bounds of the model *)

\* rows ever inserted
MaxLinks == 2
\* the database ids calls are made with
LinkIds == 1..MaxLinks

-----------------------------------------------------------------------------
(* Optional values: Python None and a present value *)

None == <<>>
Some(x) == <<x>>
Val(o) == o[1]

\* Python truthiness of an Optional[str]: neither None nor ""
Truthy(o) == o # None /\ Val(o) # ""

-----------------------------------------------------------------------------
(* Inputs *)

\* user ids; they agree on their first eight characters
Users == {"abcdefgh1", "abcdefgh2"}

\* class Platform (enum values), and the members refresh_account is called with
Platform == {"facebook", "instagram", "twitter", "tiktok", "youtube"}
PlatformInputs == {"tiktok", "facebook"}

\* platform names as the routing layer passes them to the str-typed methods
PlatformNames == {"tiktok", "TikTok", "facebook", "myspace"}

\* lower, were the name used in the letter case it came in
lower_as_given(name) == name

\* str.lower on the names above
lower(name) ==
    CASE name = "TikTok" -> "tiktok"
      [] name = "Facebook" -> "facebook"
      [] OTHER -> name

Usernames == {"h"}

\* the remote identities link_account is called with: a provider account id,
\* and one that has the shape of the ids link_manual_account makes up
LinkTargets ==
    { [platform |-> "tiktok", account_id |-> "acct_1"],
      [platform |-> "tiktok", account_id |-> "manual_h_abcdefgh"] }

\* what an OAuth exchange hands to link_account
Grants ==
    { [access_token |-> "tok1", refresh_token |-> Some("rt1"), expires_at |-> Some(12),
       scope |-> Some("read"), username |-> Some("h"), display_name |-> Some("H")],
      [access_token |-> "tok2", refresh_token |-> None, expires_at |-> None,
       scope |-> None, username |-> None, display_name |-> None] }

\* readings of the clock (datetime.utcnow), in hours
Times == {0}

\* hours_before_expiry as passed to refresh_all_tokens (24 is its default)
Horizons == {1, 24}

\* outcome of the database round trips of one call: all succeed, the commit
\* raises, or the db.refresh that follows the commit raises (the SELECTs are
\* taken to succeed)
DbOutcomes == {"ok", "commit_fails", "refresh_fails"}
\* the same for the calls that make no db.refresh
CommitOutcomes == {"ok", "commit_fails"}

-----------------------------------------------------------------------------
(* SocialAccount *)

\* SocialAccount.encrypt_token / the decryption inside get_access_token and
\* get_refresh_token
encrypt_token(t) == "enc:" \o t
decrypt_token(c) == SubSeq(c, 5, Len(c))

get_access_token(account) == decrypt_token(account.access_token)

get_refresh_token(account) ==
    IF account.refresh_token = None THEN None
    ELSE Some(decrypt_token(Val(account.refresh_token)))

\* SocialAccount.update_tokens(access_token, refresh_token, expires_at)
update_tokens(account, access_token, refresh_token, expires_at) ==
    [account EXCEPT
        !.access_token = encrypt_token(access_token),
        !.refresh_token = IF refresh_token = None THEN None
                          ELSE Some(encrypt_token(Val(refresh_token))),
        !.expires_at = expires_at]

\* SocialAccount.mark_verified()
mark_verified(account, t) ==
    [account EXCEPT !.is_verified = TRUE, !.last_verified_at = Some(t)]

\* SocialAccount(...) as the two constructors of the service call it
SocialAccount(id, user_id, platform, account_id, access_token, refresh_token, expires_at, scope, username, display_name) ==
    [id |-> id, user_id |-> user_id, platform |-> platform, account_id |-> account_id,
     access_token |-> access_token, refresh_token |-> refresh_token,
     expires_at |-> expires_at, scope |-> scope, username |-> username,
     display_name |-> display_name, is_verified |-> FALSE, last_verified_at |-> None,
     created_at |-> None, updated_at |-> None]

\* the timestamp columns: the INSERT of a row sets created_at and updated_at,
\* an UPDATE that changes a row sets updated_at
db_insert(row, now) ==
    [row EXCEPT !.created_at = Some(now), !.updated_at = Some(now)]

db_update(old, new, now) ==
    IF new = old THEN old ELSE [new EXCEPT !.updated_at = Some(now)]

-----------------------------------------------------------------------------
(* Queries *)

\* result.scalars().first(): no row, or any one of the matching rows (the
\* queries of the service carry no ORDER BY)
first(rows) == IF rows = {} THEN {None} ELSE {Some(r) : r \in rows}

\* AccountService._check_duplicate_account: the WHERE clause
_check_duplicate_account(platform, account_id, user_id) ==
    {l \in links : l.platform = platform /\ l.account_id = account_id}

\* AccountService._get_account_by_id
_get_account_by_id(id) == {l \in links : l.id = id}

\* get_user_accounts, were it to return only the verified links
get_user_accounts_verified_only(user_id, platform) ==
    {l \in links : l.user_id = user_id /\ l.platform = platform /\ l.is_verified}

\* AccountService.get_user_accounts(user_id, platform)
get_user_accounts(user_id, platform) ==
    {l \in links : l.user_id = user_id /\ l.platform = platform}

-----------------------------------------------------------------------------
(* The record of the call being answered *)

\* op: the method; args: its arguments and the outcomes of its collaborators;
\* before: the rows as they were when it was called; error: None or the kind
\* of ValueError raised; log: the last message logged; ret: the value
\* returned; revoke: the OAuth revoke call made ("none", "ok", "failed");
\* client: the platform client the call instantiated ("none", "closed", or
\* "open" when the call ended without closing it); provider: the ids of the
\* rows OAuthService.refresh_token was called for
Outcome(op, args, error, log, ret) ==
    [op |-> op, args |-> args, before |-> links, error |-> error, log |-> log,
     ret |-> ret, revoke |-> "none", client |-> "none", provider |-> {},
     steps |-> <<>>]

Idle ==
    [op |-> "idle", args |-> None, before |-> {}, error |-> None, log |-> "",
     ret |-> None, revoke |-> "none", client |-> "none", provider |-> {},
     steps |-> <<>>]

Replace(old, new) == (links \ {old}) \cup {new}

-----------------------------------------------------------------------------
(* AccountService.link_account *)

\* the row _check_duplicate_account found belongs to another user
linked_to_other_user(existing, user_id) == existing.user_id # user_id

\* relink, were the update to reset the verification of the row
relink_resets_verification(existing, g) ==
    [update_tokens(existing, g.access_token, g.refresh_token, g.expires_at)
        EXCEPT !.scope = g.scope, !.username = g.username,
               !.display_name = g.display_name,
               !.is_verified = FALSE, !.last_verified_at = None]

\* the in-place update of the row found
relink(existing, g) ==
    [update_tokens(existing, g.access_token, g.refresh_token, g.expires_at)
        EXCEPT !.scope = g.scope, !.username = g.username,
               !.display_name = g.display_name]

\* new_account, were the tokens put in the row as they came
new_account_plaintext(id, user_id, platform, account_id, g) ==
    SocialAccount(id, user_id, platform, account_id, g.access_token,
                  g.refresh_token, g.expires_at, g.scope, g.username, g.display_name)

\* new_account, were the row inserted as verified
new_account_verified(id, user_id, platform, account_id, g) ==
    [SocialAccount(id, user_id, platform, account_id,
                   encrypt_token(g.access_token),
                   IF Truthy(g.refresh_token)
                   THEN Some(encrypt_token(Val(g.refresh_token))) ELSE None,
                   g.expires_at, g.scope, g.username, g.display_name)
        EXCEPT !.is_verified = TRUE]

\* the row inserted when none was found
new_account(id, user_id, platform, account_id, g) ==
    SocialAccount(id, user_id, platform, account_id,
                  encrypt_token(g.access_token),
                  IF Truthy(g.refresh_token)
                  THEN Some(encrypt_token(Val(g.refresh_token))) ELSE None,
                  g.expires_at, g.scope, g.username, g.display_name)

link_account(user_id, platform, account_id, g, db) ==
    LET args == [user_id |-> user_id, platform |-> platform,
                 account_id |-> account_id, g |-> g, db |-> db]
        failed == Outcome("link_account", args, Some("Failed"),
                          "Failed to link account", None)
    IN  /\ last = Idle
        /\ UNCHANGED <<sessions, wallets, transactions>>
        /\ \E existing \in first(_check_duplicate_account(platform, account_id, user_id)) :
             IF existing # None /\ linked_to_other_user(Val(existing), user_id) THEN
                 /\ last' = Outcome("link_account", args, Some("Conflict"),
                                    "Account already linked to different user", None)
                 /\ UNCHANGED <<links, nextId>>
             ELSE IF db = "commit_fails" THEN
                 /\ last' = failed
                 /\ UNCHANGED <<links, nextId>>
             ELSE IF existing # None THEN
                 /\ \E now \in Times :
                        links' = Replace(Val(existing),
                                         db_update(Val(existing), relink(Val(existing), g), now))
                 /\ last' = IF db = "refresh_fails" THEN failed
                            ELSE Outcome("link_account", args, None,
                                         "Account link updated successfully",
                                         Some(Val(existing).id))
                 /\ UNCHANGED nextId
             ELSE
                 /\ nextId <= MaxLinks
                 /\ \E now \in Times :
                        links' = links \cup
                            {db_insert(new_account(nextId, user_id, platform, account_id, g), now)}
                 /\ nextId' = nextId + 1
                 /\ last' = IF db = "refresh_fails" THEN failed
                            ELSE Outcome("link_account", args, None,
                                         "Account linked successfully", Some(nextId))

-----------------------------------------------------------------------------
(* Platform clients *)

\* dict.get(key): the value under key, None when the key is absent
Get(d, k) == IF k \in DOMAIN d THEN d[k] ELSE None

\* what the provider answers to the profile request made with a link's token:
\* unreachable (transport or auth failure), or the identity behind the token
Remotes ==
    { [up |-> FALSE, id |-> None, username |-> None, name |-> None],
      [up |-> TRUE, id |-> Some("acct_1"), username |-> Some("h"), name |-> Some("H")],
      [up |-> TRUE, id |-> Some("other"), username |-> Some(""), name |-> None] }

\* TikTokClient.get_user_profile: the raw response, or PlatformAPIError
TikTok_get_user_profile(remote) ==
    IF ~remote.up THEN [raised |-> TRUE, body |-> [error |-> None]]
    ELSE [raised |-> FALSE,
          body |-> [data |-> [user |-> [open_id |-> remote.id,
                                        display_name |-> remote.name]]]]

\* TikTok_verify_account_ownership, were the failure of the profile fetch to
\* reach the caller
TikTok_verify_account_ownership_raising(remote, account_id) ==
    LET profile == TikTok_get_user_profile(remote)
    IN  IF profile.raised THEN [raised |-> TRUE, value |-> FALSE]
        ELSE [raised |-> FALSE,
              value |-> (profile.body.data.user.open_id = Some(account_id))]

\* TikTokClient.verify_account_ownership: never raises
TikTok_verify_account_ownership(remote, account_id) ==
    LET profile == TikTok_get_user_profile(remote)
    IN  IF profile.raised THEN [raised |-> FALSE, value |-> FALSE]
        ELSE LET data == IF "data" \in DOMAIN profile.body
                         THEN profile.body.data ELSE [none |-> None]
                 user_data == IF "user" \in DOMAIN data THEN data.user ELSE [none |-> None]
                 open_id == Get(user_data, "open_id")
             IN  [raised |-> FALSE, value |-> (open_id = Some(account_id))]

\* YouTubeClient.get_user_profile: the raw response, or PlatformAPIError
YouTube_get_user_profile(remote) ==
    IF ~remote.up THEN [raised |-> TRUE, body |-> [error |-> None]]
    ELSE [raised |-> FALSE,
          body |-> [items |-> IF remote.id = None THEN <<>>
                              ELSE <<[id |-> remote.id,
                                      snippet |-> [title |-> remote.name]]>>]]

\* YouTubeClient.verify_account_ownership: never raises
YouTube_verify_account_ownership(remote, account_id) ==
    LET profile == YouTube_get_user_profile(remote)
    IN  IF profile.raised THEN [raised |-> FALSE, value |-> FALSE]
        ELSE LET items == IF "items" \in DOMAIN profile.body
                          THEN profile.body.items ELSE <<>>
             IN  IF items = <<>> THEN [raised |-> FALSE, value |-> FALSE]
                 ELSE [raised |-> FALSE,
                       value |-> (Get(items[1], "id") = Some(account_id))]

\* TikTok_verify_follow, were it to ask the provider whom the user follows
TikTok_verify_follow_asking_provider(remote, target_user_id) ==
    IF ~remote.up THEN [raised |-> TRUE, value |-> FALSE, requests |-> 1]
    ELSE [raised |-> FALSE, value |-> (remote.id = Some(target_user_id)), requests |-> 1]

\* TikTokClient.verify_follow, TikTokClient.verify_video_engagement and
\* YouTubeClient.verify_comment: a warning is logged and False returned;
\* requests counts the HTTP requests made
TikTok_verify_follow(remote, target_user_id) ==
    [raised |-> FALSE, value |-> FALSE, requests |-> 0]

TikTok_verify_video_engagement(remote, video_id, engagement_type) ==
    [raised |-> FALSE, value |-> FALSE, requests |-> 0]

YouTube_verify_comment(remote, video_id) ==
    [raised |-> FALSE, value |-> FALSE, requests |-> 0]

\* the clients of Facebook, Instagram and Twitter: the profile record of the
\* capability contract, and an ownership check that raises on transport failure
Other_get_user_profile(remote) ==
    IF ~remote.up THEN [raised |-> TRUE, body |-> [error |-> None]]
    ELSE [raised |-> FALSE,
          body |-> [id |-> remote.id, username |-> remote.username, name |-> remote.name]]

Other_verify_account_ownership(remote, account_id) ==
    LET profile == Other_get_user_profile(remote)
    IN  IF profile.raised THEN [raised |-> TRUE, value |-> FALSE]
        ELSE [raised |-> FALSE, value |-> (Get(profile.body, "id") = Some(account_id))]

\* AccountService._create_platform_client: the client class, None when there is none
_create_platform_client(platform) ==
    IF platform \in Platform THEN Some(platform) ELSE None

\* client.get_user_profile() / client.verify_account_ownership(id) of the
\* client _create_platform_client returned
get_user_profile(platform, remote) ==
    CASE platform = "tiktok" -> TikTok_get_user_profile(remote)
      [] platform = "youtube" -> YouTube_get_user_profile(remote)
      [] OTHER -> Other_get_user_profile(remote)

verify_account_ownership(platform, remote, account_id) ==
    CASE platform = "tiktok" -> TikTok_verify_account_ownership(remote, account_id)
      [] platform = "youtube" -> YouTube_verify_account_ownership(remote, account_id)
      [] OTHER -> Other_verify_account_ownership(remote, account_id)

-----------------------------------------------------------------------------
(* AccountService.verify_account *)

\* ownership_confirmed, were the result of the check ignored
ownership_always_confirmed(is_verified) == TRUE

\* the test of the result of the ownership check
ownership_confirmed(is_verified) == is_verified.value

verify_account(id, remote, t, db) ==
    LET args == [id |-> id, remote |-> remote, t |-> t, db |-> db]
        failed == Outcome("verify_account", args, Some("Failed"),
                          "Failed to verify account", None)
    IN  /\ last = Idle
        /\ UNCHANGED <<sessions, wallets, transactions>>
        /\ \E found \in first(_get_account_by_id(id)) :
             IF found = None THEN
                 /\ last' = Outcome("verify_account", args, Some("NotFound"),
                                    "Account not found for verification", None)
                 /\ UNCHANGED <<links, nextId>>
             ELSE
                 LET account == Val(found)
                     client == _create_platform_client(account.platform)
                 IN  IF client = None THEN
                         /\ last' = Outcome("verify_account", args, Some("Unsupported"),
                                            "Failed to create platform client for verification",
                                            None)
                         /\ UNCHANGED <<links, nextId>>
                     ELSE
                         LET is_verified == verify_account_ownership(
                                                Val(client), remote, account.account_id)
                         IN  IF is_verified.raised THEN
                                 \* the ownership check raised: close() is not reached
                                 /\ last' = [failed EXCEPT !.client = "open"]
                                 /\ UNCHANGED <<links, nextId>>
                             ELSE IF ownership_confirmed(is_verified) /\ db = "commit_fails" THEN
                                 \* the commit raised: rollback, close() is not reached
                                 /\ last' = [failed EXCEPT !.client = "open"]
                                 /\ UNCHANGED <<links, nextId>>
                             ELSE IF ownership_confirmed(is_verified) THEN
                                 /\ links' = Replace(account,
                                                     db_update(account, mark_verified(account, t), t))
                                 /\ last' = [Outcome("verify_account", args, None,
                                                     "Account verified successfully",
                                                     Some(is_verified.value))
                                                EXCEPT !.client = "closed"]
                                 /\ UNCHANGED nextId
                             ELSE
                                 /\ last' = [Outcome("verify_account", args, None,
                                                     "Account verification failed",
                                                     Some(is_verified.value))
                                                EXCEPT !.client = "closed"]
                                 /\ UNCHANGED <<links, nextId>>

-----------------------------------------------------------------------------
(* AccountService.unlink_account *)

\* unauthorized, were the owner of the row not compared
unauthorized_never(account, user_id) == FALSE

\* the authorization check
unauthorized(account, user_id) == account.user_id # user_id

\* revoke_attempted, were the revoke block to run without the credentials
revoke_attempted_without_credentials(revoke_token, creds) == revoke_token

\* the guard of the revoke block
revoke_attempted(revoke_token, creds) == revoke_token /\ creds

\* the outcomes OAuthService.revoke_token can have when it is called
RevokeOutcomes(revoke_token, creds) ==
    IF revoke_attempted(revoke_token, creds) THEN BOOLEAN ELSE {FALSE}

\* revoke_aborts, were the exception of a failed revoke to propagate
revoke_failure_propagates(call) == call = "failed"

\* the revoke block: the exception of a failed revoke is logged and swallowed
revoke_aborts(call) == FALSE

\* the calls unlink_account makes on its collaborators once the authorization
\* check has passed, in the order of the code
unlink_steps(call, db) ==
    (IF call = "none" THEN <<>> ELSE <<"revoke_token">>)
        \o (IF revoke_aborts(call) THEN <<>> ELSE <<"delete", "commit">>)
        \o (IF revoke_aborts(call) \/ db = "commit_fails" THEN <<"rollback">> ELSE <<>>)

\* revoke_token: the revoke_token flag; creds: client_id and client_secret are
\* both supplied; revoked: OAuthService.revoke_token returns (else it raises)
unlink_account(id, user_id, revoke_token, creds, revoked, db) ==
    LET args == [id |-> id, user_id |-> user_id, revoke_token |-> revoke_token,
                 creds |-> creds, revoked |-> revoked, db |-> db]
        failed == Outcome("unlink_account", args, Some("Failed"),
                          "Failed to unlink account", None)
    IN  /\ last = Idle
        /\ UNCHANGED <<sessions, wallets, transactions>>
        /\ \E found \in first(_get_account_by_id(id)) :
             IF found = None THEN
                 /\ last' = Outcome("unlink_account", args, Some("NotFound"),
                                    "Account not found for unlinking", None)
                 /\ UNCHANGED <<links, nextId>>
             ELSE IF unauthorized(Val(found), user_id) THEN
                 /\ last' = Outcome("unlink_account", args, Some("Forbidden"),
                                    "Unauthorized account unlink attempt", None)
                 /\ UNCHANGED <<links, nextId>>
             ELSE
                 LET call == IF revoke_attempted(revoke_token, creds)
                             THEN (IF revoked THEN "ok" ELSE "failed") ELSE "none"
                 IN  IF revoke_aborts(call) \/ db = "commit_fails" THEN
                         /\ last' = [failed EXCEPT !.revoke = call,
                                                   !.steps = unlink_steps(call, db)]
                         /\ UNCHANGED <<links, nextId>>
                     ELSE
                         /\ links' = links \ {Val(found)}
                         /\ last' = [Outcome("unlink_account", args, None,
                                             "Account unlinked successfully", Some(TRUE))
                                        EXCEPT !.revoke = call,
                                               !.steps = unlink_steps(call, db)]
                         /\ UNCHANGED nextId

-----------------------------------------------------------------------------
(* AccountService.disconnect_account *)

\* account_copy, were the copy made with the constructor call alone
account_copy_without_timestamps(account) ==
    [id |-> account.id, user_id |-> account.user_id,
     platform |-> account.platform, account_id |-> account.account_id,
     username |-> account.username, display_name |-> account.display_name,
     access_token |-> account.access_token, refresh_token |-> account.refresh_token,
     expires_at |-> account.expires_at, scope |-> account.scope,
     is_verified |-> account.is_verified,
     last_verified_at |-> account.last_verified_at,
     created_at |-> None, updated_at |-> None]

\* the detached copy made before the deletion: the constructor call, then
\* the two timestamps
account_copy(account) ==
    [id |-> account.id, user_id |-> account.user_id,
     platform |-> account.platform, account_id |-> account.account_id,
     username |-> account.username, display_name |-> account.display_name,
     access_token |-> account.access_token, refresh_token |-> account.refresh_token,
     expires_at |-> account.expires_at, scope |-> account.scope,
     is_verified |-> account.is_verified,
     last_verified_at |-> account.last_verified_at,
     created_at |-> account.created_at, updated_at |-> account.updated_at]

disconnect_account(user_id, platform, db) ==
    LET args == [user_id |-> user_id, platform |-> platform, db |-> db]
        platform_lower == lower(platform)
    IN  /\ last = Idle
        /\ UNCHANGED <<sessions, wallets, transactions>>
        /\ \E found \in first({l \in links : /\ l.user_id = user_id
                                             /\ l.platform = platform_lower}) :
             IF found = None THEN
                 /\ last' = Outcome("disconnect_account", args, Some("NotFound"),
                                    "Account not found for disconnection", None)
                 /\ UNCHANGED <<links, nextId>>
             ELSE IF db = "commit_fails" THEN
                 /\ last' = Outcome("disconnect_account", args, Some("Failed"),
                                    "Failed to disconnect account", None)
                 /\ UNCHANGED <<links, nextId>>
             ELSE
                 /\ links' = links \ {Val(found)}
                 /\ last' = Outcome("disconnect_account", args, None,
                                    "Account disconnected successfully",
                                    Some(account_copy(Val(found))))
                 /\ UNCHANGED nextId

-----------------------------------------------------------------------------
(* AccountService.link_manual_account *)

\* user_id[:8]
Prefix == 8
Truncate(s) == SubSeq(s, 1, IF Len(s) < Prefix THEN Len(s) ELSE Prefix)

\* manual_account_id, were the user id not truncated
manual_account_id_whole_user_id(username, user_id) ==
    "manual_" \o username \o "_" \o user_id

\* f"manual_{username}_{user_id[:8]}"
manual_account_id(username, user_id) ==
    "manual_" \o username \o "_" \o Truncate(user_id)

\* manual_account, were the manual link inserted as verified
manual_account_verified(id, user_id, platform_lower, username) ==
    [SocialAccount(id, user_id, platform_lower, manual_account_id(username, user_id),
                   encrypt_token("manual_link_placeholder"),
                   None, None, None, Some(username), Some(username))
        EXCEPT !.is_verified = TRUE]

\* the row link_manual_account inserts
manual_account(id, user_id, platform_lower, username) ==
    SocialAccount(id, user_id, platform_lower, manual_account_id(username, user_id),
                  encrypt_token("manual_link_placeholder"),
                  None, None, None, Some(username), Some(username))

\* valid_platform, were every name taken for a platform
valid_platform_any(platform_lower) == TRUE

\* Platform(platform_lower) succeeds: the lowercased name is a value of the enum
valid_platform(platform_lower) == platform_lower \in Platform

link_manual_account(user_id, platform, username, db) ==
    LET args == [user_id |-> user_id, platform |-> platform,
                 username |-> username, db |-> db]
        platform_lower == lower(platform)
        failed == Outcome("link_manual_account", args, Some("Failed"),
                          "Failed to link manual account", None)
    IN  /\ last = Idle
        /\ UNCHANGED <<sessions, wallets, transactions>>
        /\ IF ~valid_platform(platform_lower) THEN
               /\ last' = Outcome("link_manual_account", args, Some("Invalid"),
                                  "Invalid platform", None)
               /\ UNCHANGED <<links, nextId>>
           ELSE IF get_user_accounts(user_id, platform_lower) # {} THEN
               /\ last' = Outcome("link_manual_account", args, Some("AlreadyConnected"),
                                  "Account already exists for platform", None)
               /\ UNCHANGED <<links, nextId>>
           ELSE IF db = "commit_fails" THEN
               /\ last' = failed
               /\ UNCHANGED <<links, nextId>>
           ELSE
               /\ nextId <= MaxLinks
               /\ \E now \in Times :
                      links' = links \cup
                          {db_insert(manual_account(nextId, user_id, platform_lower, username), now)}
               /\ nextId' = nextId + 1
               /\ last' = IF db = "refresh_fails" THEN failed
                          ELSE Outcome("link_manual_account", args, None,
                                       "Manual account linked successfully", Some(nextId))

-----------------------------------------------------------------------------
(* AccountService.refresh_account *)

\* overlay_profile, were the two fields assigned whatever the profile holds
overlay_profile_unconditional(account, profile_data) ==
    [account EXCEPT !.username = Get(profile_data, "username"),
                    !.display_name = Get(profile_data, "name")]

\* the overlay of the fetched profile on the row
overlay_profile(account, profile_data) ==
    LET name == IF Truthy(Get(profile_data, "name"))
                THEN Get(profile_data, "name")
                ELSE Get(profile_data, "display_name")
        with_username ==
            IF Truthy(Get(profile_data, "username"))
            THEN [account EXCEPT !.username = Get(profile_data, "username")]
            ELSE account
    IN  IF Truthy(name) THEN [with_username EXCEPT !.display_name = name]
        ELSE with_username

refresh_account(user_id, platform, remote, db) ==
    LET args == [user_id |-> user_id, platform |-> platform,
                 remote |-> remote, db |-> db]
        failed == Outcome("refresh_account", args, Some("Failed"),
                          "Failed to refresh account", None)
    IN  /\ last = Idle
        /\ UNCHANGED <<sessions, wallets, transactions>>
        /\ \E found \in first(get_user_accounts(user_id, platform)) :
             IF found = None THEN
                 /\ last' = Outcome("refresh_account", args, Some("NotFound"),
                                    "Account not found for refresh", None)
                 /\ UNCHANGED <<links, nextId>>
             ELSE
                 LET account == Val(found)
                     client == _create_platform_client(platform)
                 IN  IF client = None THEN
                         /\ last' = Outcome("refresh_account", args, Some("Unsupported"),
                                            "Failed to create platform client for refresh",
                                            None)
                         /\ UNCHANGED <<links, nextId>>
                     ELSE
                         LET profile == get_user_profile(Val(client), remote)
                         IN  IF profile.raised \/ db = "commit_fails" THEN
                                 /\ last' = [failed EXCEPT !.client = "closed"]
                                 /\ UNCHANGED <<links, nextId>>
                             ELSE
                                 /\ \E now \in Times :
                                        links' = Replace(account,
                                            db_update(account,
                                                      overlay_profile(account, profile.body), now))
                                 /\ last' = [(IF db = "refresh_fails" THEN failed
                                              ELSE Outcome("refresh_account", args, None,
                                                           "Account refreshed successfully",
                                                           Some(account.id)))
                                                EXCEPT !.client = "closed"]
                                 /\ UNCHANGED nextId

-----------------------------------------------------------------------------
(* AccountService.refresh_all_tokens *)

\* get_platform_config(platform).supports_refresh_token
supports_refresh_token(platform) == platform \notin {"facebook", "instagram"}

\* what OAuthService.refresh_token does for one row: it raises, or it returns
\* the provider's token response (a dict with optional keys)
ProviderOutcomes ==
    { [raised |-> TRUE],
      [access_token |-> "tok3", refresh_token |-> "rt2", expires_at |-> 48],
      [access_token |-> "tok3"] }

\* refresh_candidates, were the SELECT to leave out the comparison of
\* expires_at with the threshold
refresh_candidates_any_expiry(threshold) ==
    {l \in links : /\ l.expires_at # None
                   /\ l.refresh_token # None}

\* the SELECT of refresh_all_tokens
refresh_candidates(threshold) ==
    {l \in links : /\ l.expires_at # None
                   /\ Val(l.expires_at) <= threshold
                   /\ l.refresh_token # None}

\* refresh_one, were update_tokens given token_data.get("refresh_token") with
\* no default
refresh_one_without_fallback(account, outcome) ==
    IF ~supports_refresh_token(account.platform) THEN
        [bucket |-> "skipped", called |-> FALSE, row |-> account]
    ELSE IF ~Truthy(get_refresh_token(account)) THEN
        [bucket |-> "skipped", called |-> FALSE, row |-> account]
    ELSE IF "raised" \in DOMAIN outcome \/ "access_token" \notin DOMAIN outcome THEN
        [bucket |-> "failed", called |-> TRUE, row |-> account]
    ELSE
        [bucket |-> "success", called |-> TRUE,
         row |-> update_tokens(account, outcome.access_token,
                               IF "refresh_token" \in DOMAIN outcome
                               THEN Some(outcome.refresh_token) ELSE None,
                               IF "expires_at" \in DOMAIN outcome
                               THEN Some(outcome.expires_at) ELSE None)]

\* refresh_one, were the loop body to go to the provider without the two
\* checks that skip a row
refresh_one_without_skips(account, outcome) ==
    IF "raised" \in DOMAIN outcome \/ "access_token" \notin DOMAIN outcome THEN
        [bucket |-> "failed", called |-> TRUE, row |-> account]
    ELSE
        [bucket |-> "success", called |-> TRUE,
         row |-> update_tokens(account, outcome.access_token,
                               IF "refresh_token" \in DOMAIN outcome
                               THEN Some(outcome.refresh_token)
                               ELSE get_refresh_token(account),
                               IF "expires_at" \in DOMAIN outcome
                               THEN Some(outcome.expires_at) ELSE None)]

\* refresh_one, were the except clause of the loop body to log a failed row
\* without counting it
refresh_one_failed_uncounted(account, outcome) ==
    IF ~supports_refresh_token(account.platform) THEN
        [bucket |-> "skipped", called |-> FALSE, row |-> account]
    ELSE IF ~Truthy(get_refresh_token(account)) THEN
        [bucket |-> "skipped", called |-> FALSE, row |-> account]
    ELSE IF "raised" \in DOMAIN outcome \/ "access_token" \notin DOMAIN outcome THEN
        [bucket |-> "uncounted", called |-> TRUE, row |-> account]
    ELSE
        [bucket |-> "success", called |-> TRUE,
         row |-> update_tokens(account, outcome.access_token,
                               IF "refresh_token" \in DOMAIN outcome
                               THEN Some(outcome.refresh_token)
                               ELSE get_refresh_token(account),
                               IF "expires_at" \in DOMAIN outcome
                               THEN Some(outcome.expires_at) ELSE None)]

\* refresh_one, were a row whose provider call raises to lose its stored
\* refresh token and its verification
refresh_one_clearing_failed(account, outcome) ==
    IF ~supports_refresh_token(account.platform) THEN
        [bucket |-> "skipped", called |-> FALSE, row |-> account]
    ELSE IF ~Truthy(get_refresh_token(account)) THEN
        [bucket |-> "skipped", called |-> FALSE, row |-> account]
    ELSE IF "raised" \in DOMAIN outcome \/ "access_token" \notin DOMAIN outcome THEN
        [bucket |-> "failed", called |-> TRUE,
         row |-> [account EXCEPT !.refresh_token = None, !.is_verified = FALSE]]
    ELSE
        [bucket |-> "success", called |-> TRUE,
         row |-> update_tokens(account, outcome.access_token,
                               IF "refresh_token" \in DOMAIN outcome
                               THEN Some(outcome.refresh_token)
                               ELSE get_refresh_token(account),
                               IF "expires_at" \in DOMAIN outcome
                               THEN Some(outcome.expires_at) ELSE None)]

\* one pass of the loop body: the bucket the row is counted in, whether the
\* provider was called for it, and the row as the session holds it afterwards
refresh_one(account, outcome) ==
    IF ~supports_refresh_token(account.platform) THEN
        [bucket |-> "skipped", called |-> FALSE, row |-> account]
    ELSE IF ~Truthy(get_refresh_token(account)) THEN
        [bucket |-> "skipped", called |-> FALSE, row |-> account]
    ELSE IF "raised" \in DOMAIN outcome THEN
        [bucket |-> "failed", called |-> TRUE, row |-> account]
    ELSE IF "access_token" \notin DOMAIN outcome THEN
        \* token_data["access_token"] raises KeyError
        [bucket |-> "failed", called |-> TRUE, row |-> account]
    ELSE
        [bucket |-> "success", called |-> TRUE,
         row |-> update_tokens(account, outcome.access_token,
                               IF "refresh_token" \in DOMAIN outcome
                               THEN Some(outcome.refresh_token)
                               ELSE get_refresh_token(account),
                               IF "expires_at" \in DOMAIN outcome
                               THEN Some(outcome.expires_at) ELSE None)]

\* refresh_aborts, were the exception of a failed row to end the batch
refresh_failure_propagates(buckets) == "failed" \in buckets

\* the except clause of the loop body: a failed row is counted and the loop
\* goes on to the next row
refresh_aborts(buckets) == FALSE

\* what the database holds after the batch when it committed at some point,
\* were the rows committed one by one as the loop updates them
rollback_after_item_commits(updated) == updated

\* self.db.rollback() in the except clause of the batch: nothing was committed
\* before the commit that failed, so the rows updated in the session are
\* discarded and the table is as the call found it
rollback(updated) == links

refresh_all_tokens(t, hours_before_expiry, provider, db) ==
    LET args == [t |-> t, hours_before_expiry |-> hours_before_expiry,
                 provider |-> provider, db |-> db]
        threshold == t + hours_before_expiry
        accounts == refresh_candidates(threshold)
        pass == [a \in accounts |-> refresh_one(a, provider[a.id])]
        count(b) == Cardinality({a \in accounts : pass[a].bucket = b})
        stats == [success |-> count("success"), failed |-> count("failed"),
                  skipped |-> count("skipped")]
        called == {a.id : a \in {c \in accounts : pass[c].called}}
        updated == (links \ accounts) \cup {db_update(a, pass[a].row, t) : a \in accounts}
    IN  /\ last = Idle
        /\ UNCHANGED <<sessions, wallets, transactions>>
        /\ DOMAIN provider = {a.id : a \in accounts}
        /\ IF refresh_aborts({pass[a].bucket : a \in accounts}) \/ db = "commit_fails" THEN
               /\ last' = [Outcome("refresh_all_tokens", args, Some("Failed"),
                                   "Failed to refresh tokens", None)
                              EXCEPT !.provider = called]
               /\ links' = rollback(updated)
               /\ UNCHANGED nextId
           ELSE
               /\ links' = updated
               /\ last' = [Outcome("refresh_all_tokens", args, None,
                                   "Token refresh batch completed", Some(stats))
                              EXCEPT !.provider = called]
               /\ UNCHANGED nextId

-----------------------------------------------------------------------------
(* The routing layer hands the answer to the caller *)

Return ==
    /\ last # Idle
    /\ last' = Idle
    /\ UNCHANGED <<links, nextId, sessions, wallets, transactions>>

-----------------------------------------------------------------------------

Init ==
    /\ links = {}
    /\ nextId = 1
    /\ last = Idle
    /\ sessions = {}
    /\ wallets = {}
    /\ transactions = {}

Next ==
    \/ \E u \in Users, target \in LinkTargets, g \in Grants, db \in DbOutcomes :
           link_account(u, target.platform, target.account_id, g, db)
    \/ \E id \in LinkIds, remote \in Remotes, t \in Times, db \in CommitOutcomes :
           verify_account(id, remote, t, db)
    \/ \E id \in LinkIds, u \in Users, revoke_token \in BOOLEAN, creds \in BOOLEAN,
          db \in CommitOutcomes :
           \E revoked \in RevokeOutcomes(revoke_token, creds) :
               unlink_account(id, u, revoke_token, creds, revoked, db)
    \/ \E u \in Users, p \in PlatformNames, db \in CommitOutcomes :
           disconnect_account(u, p, db)
    \/ \E u \in Users, p \in PlatformNames, n \in Usernames, db \in DbOutcomes :
           link_manual_account(u, p, n, db)
    \/ \E u \in Users, p \in PlatformInputs, remote \in Remotes, db \in DbOutcomes :
           refresh_account(u, p, remote, db)
    \/ \E t \in Times, h \in Horizons, db \in CommitOutcomes :
           \E provider \in [{l.id : l \in refresh_candidates(t + h)} -> ProviderOutcomes] :
               refresh_all_tokens(t, h, provider, db)
    \/ Return

Spec == Init /\ [][Next]_vars

-----------------------------------------------------------------------------
(* The TikTok and YouTube clients on their own: each action is one call of  *)
(* a client method against a provider in some condition                     *)

\* the provider as the client finds it: unreachable or rejecting the token,
\* or answering with the profile behind the token, which may have no identity
ClientRemotes ==
    [up : BOOLEAN, id : {None, Some("acct_1"), Some("other")},
     username : {None}, name : {None, Some("H")}]

\* account ids, user ids and video ids the methods are called with
ClientIds == {"acct_1", "other", ""}

\* engagement_type of verify_video_engagement
EngagementTypes == {"like", "comment", "share"}

\* the answer of a client method as the record of the call
Answer(op, args, result) ==
    Outcome(op, args, IF result.raised THEN Some("Failed") ELSE None, "", Some(result))

Call_TikTok_verify_account_ownership(remote, account_id) ==
    /\ last' = Answer("TikTokClient.verify_account_ownership",
                      [remote |-> remote, account_id |-> account_id],
                      TikTok_verify_account_ownership(remote, account_id))
    /\ UNCHANGED <<links, nextId, sessions, wallets, transactions>>

Call_YouTube_verify_account_ownership(remote, account_id) ==
    /\ last' = Answer("YouTubeClient.verify_account_ownership",
                      [remote |-> remote, account_id |-> account_id],
                      YouTube_verify_account_ownership(remote, account_id))
    /\ UNCHANGED <<links, nextId, sessions, wallets, transactions>>

Call_TikTok_verify_follow(remote, target_user_id) ==
    /\ last' = Answer("TikTokClient.verify_follow",
                      [remote |-> remote, target_user_id |-> target_user_id],
                      TikTok_verify_follow(remote, target_user_id))
    /\ UNCHANGED <<links, nextId, sessions, wallets, transactions>>

Call_TikTok_verify_video_engagement(remote, video_id, engagement_type) ==
    /\ last' = Answer("TikTokClient.verify_video_engagement",
                      [remote |-> remote, video_id |-> video_id,
                       engagement_type |-> engagement_type],
                      TikTok_verify_video_engagement(remote, video_id, engagement_type))
    /\ UNCHANGED <<links, nextId, sessions, wallets, transactions>>

Call_YouTube_verify_comment(remote, video_id) ==
    /\ last' = Answer("YouTubeClient.verify_comment",
                      [remote |-> remote, video_id |-> video_id],
                      YouTube_verify_comment(remote, video_id))
    /\ UNCHANGED <<links, nextId, sessions, wallets, transactions>>

ClientNext ==
    \/ \E remote \in ClientRemotes, id \in ClientIds :
           Call_TikTok_verify_account_ownership(remote, id)
    \/ \E remote \in ClientRemotes, id \in ClientIds :
           Call_YouTube_verify_account_ownership(remote, id)
    \/ \E remote \in ClientRemotes, id \in ClientIds :
           Call_TikTok_verify_follow(remote, id)
    \/ \E remote \in ClientRemotes, id \in ClientIds, type \in EngagementTypes :
           Call_TikTok_verify_video_engagement(remote, id, type)
    \/ \E remote \in ClientRemotes, id \in ClientIds :
           Call_YouTube_verify_comment(remote, id)

ClientSpec == Init /\ [][ClientNext]_vars

-----------------------------------------------------------------------------
(* The token-refresh batch over links of platforms with and without refresh *)
(* tokens: link_account makes the rows, refresh_all_tokens goes over them   *)

\* remote identities: two on a platform that refreshes tokens, one on a
\* platform that does not
BatchTargets ==
    { [platform |-> "tiktok", account_id |-> "acct_1"],
      [platform |-> "tiktok", account_id |-> "acct_3"],
      [platform |-> "facebook", account_id |-> "acct_2"] }

\* grants: with refresh token and expiry, with neither, with an expiry only
BatchGrants ==
    Grants \cup
    { [access_token |-> "tok2", refresh_token |-> None, expires_at |-> Some(1),
       scope |-> None, username |-> None, display_name |-> None] }

\* token responses: those of ProviderOutcomes, and one whose refresh_token is
\* the empty string
BatchProviderOutcomes ==
    ProviderOutcomes \cup
    { [access_token |-> "tok3", refresh_token |-> "", expires_at |-> 1] }

BatchNext ==
    \/ \E u \in Users, target \in BatchTargets, g \in BatchGrants :
           link_account(u, target.platform, target.account_id, g, "ok")
    \/ \E t \in Times, h \in Horizons, db \in CommitOutcomes :
           \E provider \in [{l.id : l \in refresh_candidates(t + h)} -> BatchProviderOutcomes] :
               refresh_all_tokens(t, h, provider, db)
    \/ Return

BatchSpec == Init /\ [][BatchNext]_vars

-----------------------------------------------------------------------------
(* Calls that overlap: link_account and refresh_all_tokens taken one        *)
(* database round trip at a time.  Each call reads, awaits, then writes and *)
(* commits; the table is read-committed and the last commit wins.           *)

\* calls in flight at the same time
MaxSessions == 2

\* the remote identity the overlapping calls are about
RaceTargets == { [platform |-> "tiktok", account_id |-> "acct_1"] }

\* two grants of the provider for it, each with its own refresh token
RaceGrants ==
    { [access_token |-> "tok1", refresh_token |-> Some("rt1"), expires_at |-> Some(12),
       scope |-> Some("read"), username |-> Some("h"), display_name |-> Some("H")],
      [access_token |-> "tok2", refresh_token |-> Some("rt3"), expires_at |-> Some(12),
       scope |-> Some("read"), username |-> Some("h"), display_name |-> Some("H")] }

\* the columns link_account assigns on the row it found, and those
\* update_tokens assigns
relink_columns ==
    {"access_token", "refresh_token", "expires_at", "scope", "username", "display_name"}

update_tokens_columns == {"access_token", "refresh_token", "expires_at"}

\* the UPDATE a commit issues for an object the session loaded and changed:
\* the assigned columns of the row with that id are overwritten, whatever
\* another session committed to them since the object was loaded
flush(loaded, changed, columns, now) ==
    { IF l.id # loaded.id THEN l
      ELSE db_update(l, [c \in DOMAIN l |-> IF c \in columns THEN changed[c] ELSE l[c]], now)
      : l \in links }

\* link_account up to the answer of its duplicate lookup
link_account_lookup(user_id, platform, account_id, g) ==
    /\ last = Idle
    /\ Cardinality(sessions) < MaxSessions
    /\ \E existing \in first(_check_duplicate_account(platform, account_id, user_id)) :
          sessions' = sessions \cup
              {[call |-> "link_account", user_id |-> user_id, platform |-> platform,
                account_id |-> account_id, g |-> g, existing |-> existing]}
    /\ UNCHANGED <<links, nextId, last, wallets, transactions>>

\* link_account from the check of what the lookup found to its commit
link_account_commit(s) ==
    LET args == [user_id |-> s.user_id, platform |-> s.platform,
                 account_id |-> s.account_id, g |-> s.g, db |-> "ok"]
    IN  /\ last = Idle
        /\ s.call = "link_account"
        /\ sessions' = sessions \ {s}
        /\ UNCHANGED <<wallets, transactions>>
        /\ IF s.existing # None /\ linked_to_other_user(Val(s.existing), s.user_id) THEN
               /\ last' = Outcome("link_account", args, Some("Conflict"),
                                  "Account already linked to different user", None)
               /\ UNCHANGED <<links, nextId>>
           ELSE IF s.existing # None THEN
               /\ \E now \in Times :
                      links' = flush(Val(s.existing), relink(Val(s.existing), s.g),
                                     relink_columns, now)
               /\ last' = Outcome("link_account", args, None,
                                  "Account link updated successfully",
                                  Some(Val(s.existing).id))
               /\ UNCHANGED nextId
           ELSE
               /\ nextId <= MaxLinks
               /\ \E now \in Times :
                      links' = links \cup
                          {db_insert(new_account(nextId, s.user_id, s.platform,
                                                 s.account_id, s.g), now)}
               /\ nextId' = nextId + 1
               /\ last' = Outcome("link_account", args, None,
                                  "Account linked successfully", Some(nextId))

\* refresh_all_tokens up to the answer of its SELECT
refresh_all_tokens_select(t, hours_before_expiry) ==
    /\ last = Idle
    /\ Cardinality(sessions) < MaxSessions
    /\ \A s \in sessions : s.call # "refresh_all_tokens"
    /\ sessions' = sessions \cup
           {[call |-> "refresh_all_tokens", t |-> t,
             hours_before_expiry |-> hours_before_expiry,
             accounts |-> refresh_candidates(t + hours_before_expiry)]}
    /\ UNCHANGED <<links, nextId, last, wallets, transactions>>

\* refresh_all_tokens from its loop over the rows it selected to its commit
refresh_all_tokens_commit(s, provider) ==
    LET args == [t |-> s.t, hours_before_expiry |-> s.hours_before_expiry,
                 provider |-> provider, db |-> "ok", accounts |-> s.accounts]
        pass == [a \in s.accounts |-> refresh_one(a, provider[a.id])]
        count(b) == Cardinality({a \in s.accounts : pass[a].bucket = b})
        stats == [success |-> count("success"), failed |-> count("failed"),
                  skipped |-> count("skipped")]
        changed == {a \in s.accounts : pass[a].bucket = "success"}
        row(l) == IF \E a \in changed : a.id = l.id
                  THEN LET a == CHOOSE a \in changed : a.id = l.id
                       IN  db_update(l, [c \in DOMAIN l |->
                                            IF c \in update_tokens_columns
                                            THEN pass[a].row[c] ELSE l[c]], s.t)
                  ELSE l
    IN  /\ last = Idle
        /\ s.call = "refresh_all_tokens"
        /\ DOMAIN provider = {a.id : a \in s.accounts}
        /\ sessions' = sessions \ {s}
        /\ UNCHANGED <<wallets, transactions>>
        /\ links' = {row(l) : l \in links}
        /\ last' = [Outcome("refresh_all_tokens", args, None,
                            "Token refresh batch completed", Some(stats))
                       EXCEPT !.provider = {a.id : a \in {c \in s.accounts : pass[c].called}}]
        /\ UNCHANGED nextId

RaceNext ==
    \/ \E u \in Users, target \in RaceTargets, g \in RaceGrants :
           link_account_lookup(u, target.platform, target.account_id, g)
    \/ \E s \in sessions : link_account_commit(s)
    \/ \E t \in Times, h \in Horizons : refresh_all_tokens_select(t, h)
    \/ \E s \in sessions :
           \E provider \in [{a.id : a \in IF s.call = "refresh_all_tokens"
                                          THEN s.accounts ELSE {}} -> ProviderOutcomes] :
               refresh_all_tokens_commit(s, provider)
    \/ Return

RaceSpec == Init /\ [][RaceNext]_vars

-----------------------------------------------------------------------------
(* The user-scoped wallet endpoints (src/src/api_gateway/routers/my_wallet.py) *)
(* over the wallets and transactions of the payment ledger                    *)

\* the ids the ledger can give to a wallet and to a transaction
WalletUuids == {[hex |-> "w1"], [hex |-> "w2"]}
TransactionUuids == {[hex |-> "t1"], [hex |-> "t2"]}

\* the transaction ids a request can name: the ledger's and one it never gave
TransactionIds == {"t1", "t2", "t9"}

\* the descriptions the ledger can give to a transaction
Descriptions == {None, Some("deposit")}

\* str() of an id
str(uuid) == uuid.hex

\* WalletService.get_wallet_by_user_id
get_wallet_by_user_id(user_id) == {w \in wallets : w.user_id = user_id}

\* WalletService.create_wallet with no initial balance
create_wallet(uuid, user_id) ==
    [id |-> uuid, user_id |-> user_id, balance |-> 0, escrow_balance |-> 0]

\* TransactionService.get_transaction
get_transaction_by_id(transaction_id) ==
    {t \in transactions : str(t.id) = transaction_id}

\* the answer of an endpoint as the record of the call
Response(op, args, status_code, detail, body) ==
    [op |-> op, args |-> args, status_code |-> status_code, detail |-> detail,
     body |-> body, before |-> links, wallets_before |-> wallets,
     transactions_before |-> transactions]

\* the WalletInfo an endpoint answers with
WalletInfo(wallet) ==
    [id |-> str(wallet.id), user_id |-> wallet.user_id, balance |-> wallet.balance,
     available_balance |-> wallet.balance - wallet.escrow_balance,
     pending_balance |-> 0, escrow_balance |-> wallet.escrow_balance]

\* GET /wallet: the caller's wallet, created when there is none
get_my_wallet(user_id, created) ==
    LET args == [user_id |-> user_id, created |-> created]
    IN  /\ last = Idle
        /\ UNCHANGED <<links, nextId, sessions, transactions>>
        /\ \E found \in first(get_wallet_by_user_id(user_id)) :
             IF found # None THEN
                 /\ last' = Response("get_my_wallet", args, 200, "",
                                     Some(WalletInfo(Val(found))))
                 /\ UNCHANGED wallets
             ELSE IF ~created THEN
                 /\ last' = Response("get_my_wallet", args, 500,
                                     "Failed to create wallet", None)
                 /\ UNCHANGED wallets
             ELSE
                 \E uuid \in WalletUuids \ {w.id : w \in wallets} :
                     LET wallet == create_wallet(uuid, user_id)
                     IN  /\ wallets' = wallets \cup {wallet}
                         /\ last' = Response("get_my_wallet", args, 200, "",
                                             Some(WalletInfo(wallet)))

\* the payment ledger records a transaction on a wallet
record_transaction(wallet, description) ==
    /\ last = Idle
    /\ \E uuid \in TransactionUuids \ {t.id : t \in transactions} :
           transactions' = transactions \cup
               {[id |-> uuid, wallet_id |-> wallet.id, description |-> description]}
    /\ UNCHANGED <<links, nextId, last, sessions, wallets>>

\* the ownership check, were every transaction to pass it
owns_transaction_always(transaction, wallet) == TRUE

\* the ownership check of get_transaction
owns_transaction(transaction, wallet) == str(transaction.wallet_id) = str(wallet.id)

\* the TransactionItem get_transaction answers with
TransactionItem(transaction) ==
    [id |-> str(transaction.id), wallet_id |-> str(transaction.wallet_id),
     description |-> IF Truthy(transaction.description)
                     THEN Val(transaction.description) ELSE ""]

\* GET /wallet/transactions/{transaction_id}
get_transaction(transaction_id, user_id) ==
    LET args == [transaction_id |-> transaction_id, user_id |-> user_id]
    IN  /\ last = Idle
        /\ UNCHANGED <<links, nextId, sessions, wallets, transactions>>
        /\ \E wallet \in first(get_wallet_by_user_id(user_id)),
              transaction \in first(get_transaction_by_id(transaction_id)) :
             IF wallet = None THEN
                 last' = Response("get_transaction", args, 404, "Wallet not found", None)
             ELSE IF transaction = None THEN
                 last' = Response("get_transaction", args, 404,
                                  "Transaction not found", None)
             ELSE IF ~owns_transaction(Val(transaction), Val(wallet)) THEN
                 last' = Response("get_transaction", args, 403,
                                  "Transaction does not belong to your wallet", None)
             ELSE
                 last' = Response("get_transaction", args, 200, "",
                                  Some(TransactionItem(Val(transaction))))

WalletNext ==
    \/ \E u \in Users, created \in BOOLEAN : get_my_wallet(u, created)
    \/ \E wallet \in wallets, d \in Descriptions : record_transaction(wallet, d)
    \/ \E id \in TransactionIds, u \in Users : get_transaction(id, u)
    \/ Return

WalletSpec == Init /\ [][WalletNext]_vars

-----------------------------------------------------------------------------
(* Properties *)

\* a call is being answered
Answering(op) == last.op = op

\* the row with this id before the call / after it
Before(id) == {b \in last.before : b.id = id}
After(id) == {l \in links : l.id = id}

\* C1: at most one link exists for each (platform, platform_account_id), in
\* every reachable state.
C1_UniqueRemoteIdentity ==
    \A l1 \in links, l2 \in links :
        (l1.platform = l2.platform /\ l1.account_id = l2.account_id) => l1 = l2

\* C2: link_account(U2, P, A) while a link for (P, A) is owned by another user
\* fails with Conflict and leaves every row as it was.
C2_ConflictForOtherUser ==
    (/\ Answering("link_account")
     /\ \E b \in last.before : /\ b.platform = last.args.platform
                               /\ b.account_id = last.args.account_id
                               /\ b.user_id # last.args.user_id)
    => (last.error = Some("Conflict") /\ links = last.before)

\* C3: link_account by the user who already holds (platform, account_id), when
\* the database does not fail, leaves exactly one row for the triple, and that
\* row stores the access token, refresh token and expiry of this call.
C3_SameTriple(l) ==
    /\ l.user_id = last.args.user_id
    /\ l.platform = last.args.platform
    /\ l.account_id = last.args.account_id

C3_RelinkUpdatesInPlace ==
    (/\ Answering("link_account")
     /\ last.args.db = "ok"
     /\ \E b \in last.before : C3_SameTriple(b))
    => /\ Cardinality({l \in links : C3_SameTriple(l)}) = 1
       /\ \A l \in links : C3_SameTriple(l) =>
            /\ l.access_token = encrypt_token(last.args.g.access_token)
            /\ get_refresh_token(l) = last.args.g.refresh_token
            /\ l.expires_at = last.args.g.expires_at

\* the provider reports the identity behind the token, and it is this account id
OwnershipProved(remote, account_id) == remote.up /\ remote.id = Some(account_id)

\* C4: a row is verified after a call only if it was verified before it, or the
\* call is verify_account on that row and the provider reported the row's own
\* account id as the identity behind its token (the row is then stamped with
\* the time of the call and is otherwise as before); a verify_account whose
\* check found no match returns false and changes no row.
C4_VerifiedOnlyByOwnershipCheck ==
    ~Answering("idle") =>
    /\ \A l \in links : l.is_verified =>
          \/ \E b \in Before(l.id) : b.is_verified
          \/ /\ Answering("verify_account")
             /\ last.args.id = l.id
             /\ \E b \in Before(l.id) :
                   /\ OwnershipProved(last.args.remote, b.account_id)
                   /\ l = [b EXCEPT !.is_verified = TRUE,
                                    !.last_verified_at = Some(last.args.t)]
    /\ (/\ Answering("verify_account")
        /\ \E b \in Before(last.args.id) :
              ~OwnershipProved(last.args.remote, b.account_id))
       => /\ links = last.before
          /\ last.ret # Some(TRUE)
          /\ (last.error = None => last.ret = Some(FALSE))

C4_Witness ==
    /\ Answering("verify_account")
    /\ last.ret = Some(TRUE)
    /\ \E l \in After(last.args.id), b \in Before(last.args.id) :
          ~b.is_verified /\ l.is_verified /\ l.last_verified_at # None

\* C5: a row that is still there after a call and was verified before it is
\* still verified, with its verification stamp, whatever the call was and
\* however it ended; a verified row disappears only through unlink_account or
\* disconnect_account.
C5_VerifiedIsKept ==
    ~Answering("idle") =>
    \A b \in last.before : b.is_verified =>
        /\ \A l \in After(b.id) :
              l.is_verified /\ l.last_verified_at = b.last_verified_at
        /\ After(b.id) = {} =>
              (Answering("unlink_account") \/ Answering("disconnect_account"))

C5_Witness ==
    /\ Answering("link_account")
    /\ last.log = "Account link updated successfully"
    /\ \E b \in last.before : /\ b.id = Val(last.ret)
                              /\ b.is_verified
                              /\ \E l \in After(b.id) : l.is_verified /\ l # b

\* C6: a row that was not there before a call was inserted by link_account or
\* link_manual_account and is unverified, with no last_verified_at.
C6_CreatedUnverified ==
    ~Answering("idle") =>
    \A l \in links : Before(l.id) = {} =>
        /\ Answering("link_account") \/ Answering("link_manual_account")
        /\ ~l.is_verified
        /\ l.last_verified_at = None

C6_Witness ==
    /\ Answering("link_account")
    /\ last.error = None
    /\ \E l \in links : Before(l.id) = {} /\ ~l.is_verified

\* C7: when verify_account or refresh_account ends, by returning or by
\* raising, the platform client it instantiated has been closed.
C7_ClientAlwaysClosed ==
    (Answering("verify_account") \/ Answering("refresh_account"))
    => last.client # "open"

\* C8: unlink_account by a user who does not own the row fails with Forbidden,
\* makes no revoke call and leaves every row as it was.
C8_ForeignUnlinkForbidden ==
    (/\ Answering("unlink_account")
     /\ \E b \in Before(last.args.id) : b.user_id # last.args.user_id)
    => /\ last.error = Some("Forbidden")
       /\ last.revoke = "none"
       /\ links = last.before

C8_Witness ==
    /\ Answering("unlink_account")
    /\ last.error = Some("Forbidden")
    /\ last.args.revoke_token /\ last.args.creds /\ last.args.revoked
    /\ After(last.args.id) # {}

\* C9: unlink_account by the owner of the row, when the database does not
\* fail, returns True and the row is gone, whether the revoke call succeeded,
\* raised or was not made; every other row is as it was.
C9_OwnerUnlinkDeletes ==
    (/\ Answering("unlink_account")
     /\ last.args.db = "ok"
     /\ \E b \in Before(last.args.id) : b.user_id = last.args.user_id)
    => /\ last.error = None
       /\ last.ret = Some(TRUE)
       /\ links = last.before \ Before(last.args.id)

C9_Witness ==
    /\ Answering("unlink_account")
    /\ last.revoke = "failed"
    /\ last.ret = Some(TRUE)
    /\ Before(last.args.id) # {}
    /\ After(last.args.id) = {}

\* the rows refresh_all_tokens selects, stated on the rows before the call
C10_Candidates ==
    {b \in last.before :
        /\ b.expires_at # None
        /\ Val(b.expires_at) <= last.args.t + last.args.hours_before_expiry
        /\ b.refresh_token # None}

\* the candidates the provider call raises for
C10_Throwing == {b \in C10_Candidates : "raised" \in DOMAIN last.args.provider[b.id]}

\* no candidate is one the loop skips
C10_NoneSkipped ==
    \A b \in C10_Candidates :
        /\ b.platform \notin {"facebook", "instagram"}
        /\ b.refresh_token \notin {None, Some(encrypt_token(""))}

\* C10: with N candidates of which K raise in the provider call and none is
\* skipped, and a database that does not fail, refresh_all_tokens returns
\* {success: N-K, failed: K, skipped: 0}, has called the provider for every
\* candidate, has stored the provider's access token on each of the N-K rows and
\* has left the K rows as they were.
C10_BatchIsolation ==
    (/\ Answering("refresh_all_tokens")
     /\ last.args.db = "ok"
     /\ C10_NoneSkipped)
    => /\ last.error = None
       /\ last.ret = Some([success |-> Cardinality(C10_Candidates \ C10_Throwing),
                           failed |-> Cardinality(C10_Throwing),
                           skipped |-> 0])
       /\ last.provider = {b.id : b \in C10_Candidates}
       /\ \A b \in C10_Throwing : b \in links
       /\ \A b \in C10_Candidates \ C10_Throwing :
             \E l \in After(b.id) :
                 l.access_token =
                     encrypt_token(last.args.provider[b.id].access_token)

C10_Witness ==
    /\ Answering("refresh_all_tokens")
    /\ last.ret = Some([success |-> 1, failed |-> 1, skipped |-> 0])
    /\ \E b \in C10_Throwing : b \in links
    /\ \E b \in C10_Candidates \ C10_Throwing : b \notin links

\* C11: refresh_all_tokens never raises: every call ends by returning the
\* {success, failed, skipped} counts, whatever the provider calls and the
\* end-of-batch commit do.
C11_BatchNeverRaises ==
    Answering("refresh_all_tokens")
    => /\ last.error = None
       /\ last.ret # None
       /\ DOMAIN Val(last.ret) = {"success", "failed", "skipped"}

\* the candidates the loop skips: the platform has no refresh tokens, or the
\* stored refresh token decrypts to nothing
C14_Skippable ==
    {b \in C10_Candidates :
        \/ ~supports_refresh_token(b.platform)
        \/ get_refresh_token(b) \in {None, Some("")}}

\* the candidates whose refresh succeeds: not skipped, and the provider
\* answered with a token response
C13_Refreshed ==
    {b \in C10_Candidates \ C14_Skippable :
        "access_token" \in DOMAIN last.args.provider[b.id]}

\* C12: refresh_all_tokens works on exactly the links whose expires_at is
\* non-null and not later than now + hours_before_expiry and whose
\* refresh_token is non-null: the three buckets count these links and no
\* other, the provider is called for each of them that is not skipped and for
\* no other link, and every other link is left as it was.
C12_SelectionCriteria ==
    Answering("refresh_all_tokens")
    => /\ last.provider = {b.id : b \in C10_Candidates \ C14_Skippable}
       /\ \A b \in last.before \ C10_Candidates : b \in links
       /\ last.error = None
          => Val(last.ret).success + Val(last.ret).failed + Val(last.ret).skipped
                = Cardinality(C10_Candidates)

\* a batch that called the provider while a link beyond the horizon, and so
\* not selected, was present and stayed as it was
C12_Witness ==
    /\ Answering("refresh_all_tokens")
    /\ last.error = None
    /\ last.provider # {}
    /\ \E b \in last.before \ C10_Candidates :
          /\ b.expires_at # None
          /\ b.refresh_token # None
          /\ b \in links

C14_SkippedBucket ==
    Answering("refresh_all_tokens")
    => /\ \A b \in C14_Skippable : b.id \notin last.provider /\ b \in links
       /\ last.error = None
          => /\ Val(last.ret).skipped = Cardinality(C14_Skippable)
             /\ Val(last.ret).success + Val(last.ret).failed
                   = Cardinality(C10_Candidates \ C14_Skippable)

\* a batch over a facebook link and a link whose refresh token is empty, both
\* skipped
C14_Witness ==
    /\ Answering("refresh_all_tokens")
    /\ last.ret = Some([success |-> 0, failed |-> 0, skipped |-> 2])
    /\ \E b \in C14_Skippable : ~supports_refresh_token(b.platform)
    /\ \E b \in C14_Skippable : get_refresh_token(b) = Some("")

\* C15: the batch commits once, after the loop: when that commit fails no
\* update of the batch is in the table, and when it succeeds every successful
\* update of the batch is, the number of rows changed being the success count.
C15_SingleCommit ==
    Answering("refresh_all_tokens")
    => /\ last.error # None => links = last.before
       /\ last.error = None
          => /\ \A b \in C13_Refreshed :
                   \E l \in After(b.id) :
                      get_access_token(l) = last.args.provider[b.id].access_token
             /\ Cardinality(C13_Refreshed) = Val(last.ret).success
             /\ last.before \ links \subseteq C13_Refreshed

\* the commit failed after two rows had been refreshed in the session: none of
\* the two updates is in the table
C15_Witness ==
    /\ Answering("refresh_all_tokens")
    /\ last.args.db = "commit_fails"
    /\ last.error # None
    /\ Cardinality(C13_Refreshed) = 2
    /\ links = last.before

\* a platform name without regard to letter case, for the names the calls are
\* made with
C16_Lowercase(name) ==
    CASE name \in {"tiktok", "TikTok", "TIKTOK"} -> "tiktok"
      [] name \in {"facebook", "Facebook"} -> "facebook"
      [] OTHER -> name

\* the caller's links for the platform named in the call, before the call
C16_OwnLinks ==
    {b \in last.before : /\ b.user_id = last.args.user_id
                         /\ b.platform = C16_Lowercase(last.args.platform)}

\* C16: link_manual_account fails with 'already connected' and creates nothing
\* whenever the user already has a link for the platform, manual or made by
\* link_account, verified or not.
C16_OnePerPlatform ==
    (Answering("link_manual_account") /\ C16_OwnLinks # {})
    => /\ last.error = Some("AlreadyConnected")
       /\ links = last.before

\* the call is refused because of an unverified link made by link_account
C16_Witness ==
    /\ Answering("link_manual_account")
    /\ last.error = Some("AlreadyConnected")
    /\ links = last.before
    /\ \E b \in C16_OwnLinks : b.account_id = "acct_1" /\ ~b.is_verified

\* C17: a successful link_manual_account creates exactly one link, with
\* account id 'manual_' + username + '_' + first 8 characters of the user id,
\* username and display name the given username, the encrypted placeholder as
\* access token, no refresh token, no expiry, unverified, never verified.
C17_ManualLinkShape ==
    (Answering("link_manual_account") /\ last.error = None)
    => /\ last.before \subseteq links
       /\ \E l \in links \ last.before :
             /\ links \ last.before = {l}
             /\ last.ret = Some(l.id)
             /\ l.user_id = last.args.user_id
             /\ l.account_id = "manual_" \o last.args.username \o "_"
                                  \o SubSeq(last.args.user_id, 1, 8)
             /\ l.username = Some(last.args.username)
             /\ l.display_name = Some(last.args.username)
             /\ l.access_token # "manual_link_placeholder"
             /\ get_access_token(l) = "manual_link_placeholder"
             /\ l.refresh_token = None
             /\ l.expires_at = None
             /\ l.scope = None
             /\ l.is_verified = FALSE
             /\ l.last_verified_at = None

\* a manual link made for the user abcdefgh2
C17_Witness ==
    /\ Answering("link_manual_account")
    /\ last.error = None
    /\ last.args.user_id = "abcdefgh2"
    /\ \E l \in links \ last.before : l.account_id = "manual_h_abcdefgh"

\* C18: link_manual_account with a name that is no platform in any letter
\* case fails with a validation error and creates nothing; with the name of a
\* platform in any letter case the link is stored under the lowercase name.
C18_PlatformValidated ==
    Answering("link_manual_account")
    => /\ C16_Lowercase(last.args.platform)
             \notin {"facebook", "instagram", "twitter", "tiktok", "youtube"}
          => last.error = Some("Invalid") /\ links = last.before
       /\ C16_Lowercase(last.args.platform)
             \in {"facebook", "instagram", "twitter", "tiktok", "youtube"}
          => /\ last.error # Some("Invalid")
             /\ \A l \in links \ last.before :
                   l.platform = C16_Lowercase(last.args.platform)

\* a link asked for as "TikTok" and stored as "tiktok"
C18_Witness ==
    /\ Answering("link_manual_account")
    /\ last.error = None
    /\ last.args.platform = "TikTok"
    /\ \E l \in links \ last.before : l.platform = "tiktok"

\* C19: a successful disconnect_account deletes one link of the user for the
\* platform and returns a copy that agrees with the deleted row in every
\* column, the two timestamps included; when the user has no link for the
\* platform the call fails with NotFound and changes nothing.
C19_DisconnectReturnsCopy ==
    Answering("disconnect_account")
    => /\ C16_OwnLinks = {} => last.error = Some("NotFound") /\ links = last.before
       /\ last.error = None
          => \E b \in C16_OwnLinks :
                /\ links = last.before \ {b}
                /\ DOMAIN Val(last.ret) = DOMAIN b
                /\ \A column \in DOMAIN b : Val(last.ret)[column] = b[column]

\* a verified link with refresh token and expiry is disconnected; the copy
\* carries its verification and its timestamps
C19_Witness ==
    /\ Answering("disconnect_account")
    /\ last.error = None
    /\ \E b \in C16_OwnLinks :
          /\ b \notin links
          /\ b.is_verified
          /\ b.refresh_token # None
          /\ b.created_at # None
          /\ Val(last.ret) = b

\* C20: the outcome of disconnect_account for a platform name in any letter
\* case is an outcome of the call with the lowercase name: NotFound when the
\* user has no link for the lowercase platform, and otherwise the deletion of
\* one of the user's links for it (or the failure of the commit).
C20_CaseInsensitiveDisconnect ==
    Answering("disconnect_account")
    => LET own == {b \in last.before :
                      /\ b.user_id = last.args.user_id
                      /\ b.platform = C16_Lowercase(last.args.platform)}
       IN  /\ own = {} <=> last.error = Some("NotFound")
           /\ (own # {} /\ last.args.db = "ok")
              => /\ last.error = None
                 /\ \E b \in own : links = last.before \ {b} /\ Val(last.ret).id = b.id
           /\ last.error # None => links = last.before

\* the link stored as "tiktok" is disconnected by the name "TikTok"
C20_Witness ==
    /\ Answering("disconnect_account")
    /\ last.args.platform = "TikTok"
    /\ last.error = None
    /\ \E b \in last.before \ links : b.platform = "tiktok"

\* the columns refresh_account has no business with: credentials and
\* verification state
C21_Kept ==
    {"access_token", "refresh_token", "expires_at", "scope",
     "is_verified", "last_verified_at", "user_id", "platform", "account_id"}

\* C21: refresh_account never replaces a stored username (display name) when
\* the live profile has no username (name) or an empty one, and never changes
\* credentials or verification state, whether it returns or raises.
C21_NoClobber ==
    Answering("refresh_account")
    => \A b \in last.before :
          \E l \in After(b.id) :
             /\ \A column \in C21_Kept : l[column] = b[column]
             /\ ~Truthy(last.args.remote.username) => l.username = b.username
             /\ ~Truthy(last.args.remote.name) => l.display_name = b.display_name

\* the live profile came back with an empty username and no name: the stored
\* username and display name are still there
C21_Witness ==
    /\ Answering("refresh_account")
    /\ last.error = None
    /\ last.args.remote.up
    /\ last.args.remote.username = Some("")
    /\ last.args.remote.name = None
    /\ \E l \in After(Val(last.ret)) : l.username = Some("h") /\ l.display_name = Some("h")

\* what the live profile of the platform carries: TikTok has a display name
\* (data.user.display_name) and YouTube a title (items[0].snippet.title) and
\* neither a username; the other platforms have both
C22_LiveUsername ==
    IF last.args.platform \in {"tiktok", "youtube"} THEN None
    ELSE last.args.remote.username

C22_LiveName == last.args.remote.name

\* C22: when the live profile of the linked account has a non-empty username
\* or display name, a successful refresh_account stores it on the link, on
\* every platform that has a client, TikTok and YouTube included.
C22_ProfileStored ==
    (Answering("refresh_account") /\ last.error = None)
    => \E l \in After(Val(last.ret)) :
          /\ Truthy(C22_LiveName) => l.display_name = C22_LiveName
          /\ Truthy(C22_LiveUsername) => l.username = C22_LiveUsername

\* the calls of the checks the platforms cannot support
C23_GapChecks ==
    {"TikTokClient.verify_follow", "TikTokClient.verify_video_engagement",
     "YouTubeClient.verify_comment"}

\* C23: TikTok verify_follow, TikTok verify_video_engagement (any engagement
\* type) and YouTube verify_comment return false for every input and every
\* condition of the provider, make no request and never raise.
C23_GapChecksAreFalse ==
    last.op \in C23_GapChecks
    => /\ last.error = None
       /\ Val(last.ret).raised = FALSE
       /\ Val(last.ret).value = FALSE
       /\ Val(last.ret).requests = 0

\* verify_video_engagement for a comment, with a provider that is down
C23_Witness ==
    /\ last.op = "TikTokClient.verify_video_engagement"
    /\ last.args.engagement_type = "comment"
    /\ ~last.args.remote.up
    /\ Val(last.ret).value = FALSE

\* C24: verify_account_ownership of the TikTok and the YouTube client returns
\* true exactly when the provider answers and the identifier of the profile is
\* the claimed account id; on a mismatch, on a profile without identity and on
\* a failed profile fetch it returns false; it never raises.
C24_OwnershipCheck ==
    last.op \in {"TikTokClient.verify_account_ownership",
                 "YouTubeClient.verify_account_ownership"}
    => /\ last.error = None
       /\ Val(last.ret).raised = FALSE
       /\ Val(last.ret).value
             = (/\ last.args.remote.up
                /\ last.args.remote.id = Some(last.args.account_id))

\* the YouTube check answers false because the profile fetch failed
C24_Witness ==
    /\ last.op = "YouTubeClient.verify_account_ownership"
    /\ ~last.args.remote.up
    /\ last.args.remote.id = Some(last.args.account_id)
    /\ Val(last.ret) = [raised |-> FALSE, value |-> FALSE]

\* the token values that pass through the service in the clear
C25_Plaintexts ==
    {"tok1", "tok2", "tok3", "rt1", "rt2", "", "manual_link_placeholder"}

\* a column value is a ciphertext: not one of the plaintexts, and what
\* encrypting its decryption gives
C25_Encrypted(value) ==
    /\ value \notin C25_Plaintexts
    /\ encrypt_token(decrypt_token(value)) = value
    /\ decrypt_token(value) \in C25_Plaintexts

\* C25: in every reachable state every link holds its access token, and its
\* refresh token when it has one, in encrypted form only.
C25_TokensEncrypted ==
    \A l \in links :
        /\ C25_Encrypted(l.access_token)
        /\ l.refresh_token # None => C25_Encrypted(Val(l.refresh_token))

\* a link after a re-link and one after a batch refresh, both encrypted
C25_Witness ==
    /\ Answering("refresh_all_tokens")
    /\ last.error = None
    /\ \E l \in links : l.access_token = encrypt_token("tok3")
                        /\ l.refresh_token = Some(encrypt_token("rt2"))
    /\ \E l \in links : get_access_token(l) = "manual_link_placeholder"

\* the link carries the placeholder credential
C26_Placeholder(l) == get_access_token(l) = "manual_link_placeholder"

\* C26: every link has an access token, no verified link carries the
\* placeholder, and a link carries the placeholder only if link_manual_account
\* made it so: in the state a call leaves, a link with the placeholder either
\* carried it before the call or was created by that call, a
\* link_manual_account.
C26_PlaceholderOnlyOnManual ==
    /\ \A l \in links :
          /\ get_access_token(l) # ""
          /\ C26_Placeholder(l) => ~l.is_verified
    /\ last # Idle
       => \A l \in links :
             C26_Placeholder(l)
             => \/ \E b \in Before(l.id) : C26_Placeholder(b)
                \/ Answering("link_manual_account") /\ Before(l.id) = {}

\* verify_account was tried on a manual link: it answered false and the link,
\* still with its placeholder, is unverified
C26_Witness ==
    /\ Answering("verify_account")
    /\ last.ret = Some(FALSE)
    /\ \E l \in After(last.args.id) : C26_Placeholder(l) /\ ~l.is_verified

\* the operations that write to the table of links
C27_Mutating ==
    {"link_account", "verify_account", "unlink_account", "disconnect_account",
     "link_manual_account", "refresh_account"}

\* C27: each mutating operation is all-or-nothing: whenever it raises, the
\* links in the table are exactly those of before the call.
C27_AllOrNothing ==
    (last.op \in C27_Mutating /\ last.error # None) => links = last.before

\* the caller's links for the platform of the call, before and after it
C30_OwnBefore ==
    {b \in last.before : b.user_id = last.args.user_id /\ b.platform = last.args.platform}

C30_OwnAfter ==
    {l \in links : l.user_id = last.args.user_id /\ l.platform = last.args.platform}

\* C30: when a user who has a manual link for a platform completes OAuth, the
\* successful link_account leaves the user's link for the platform with the
\* real token, and no link of that user for the platform carries the
\* placeholder any more.
C30_PlaceholderReplaced ==
    (/\ Answering("link_account")
     /\ last.error = None
     /\ \E b \in C30_OwnBefore : C26_Placeholder(b))
    => /\ \E l \in C30_OwnAfter : get_access_token(l) = last.args.g.access_token
       /\ \A l \in C30_OwnAfter : ~C26_Placeholder(l)

\* the rows the batch being answered had selected and refreshed
C28_Refreshed ==
    {a \in last.args.accounts :
        /\ supports_refresh_token(a.platform)
        /\ Truthy(get_refresh_token(a))
        /\ "access_token" \in DOMAIN last.args.provider[a.id]}

\* C28: when a same-user re-link and refresh_all_tokens overlap on one link,
\* the credentials the batch leaves on it are one writer's set (the access
\* token of the refresh with the refresh token that goes with it), and a
\* refresh token that the re-link had replaced while the batch was under way
\* is not put back.
C28_NoStaleRefreshToken ==
    (last.op = "refresh_all_tokens" /\ "accounts" \in DOMAIN last.args)
    => \A a \in C28_Refreshed :
          \A b \in Before(a.id) :
             \E l \in After(a.id) :
                /\ get_access_token(l) = last.args.provider[a.id].access_token
                /\ get_refresh_token(b) # get_refresh_token(a)
                   => get_refresh_token(l) # get_refresh_token(a)

\* C29: two link_account calls of different users for the same remote
\* identity, overlapping between lookup and commit, never both succeed: a
\* link_account that succeeds leaves one link for its (platform, account_id).
C29_NoDoubleLink ==
    (Answering("link_account") /\ last.error = None)
    => Cardinality({l \in links : /\ l.platform = last.args.platform
                                  /\ l.account_id = last.args.account_id}) = 1

\* the positions of a collaborator call among the calls of the last operation
C31_Positions(step) == {i \in 1..Len(last.steps) : last.steps[i] = step}

\* the caller owns the row the call names
C31_OwnershipPassed ==
    \E b \in Before(last.args.id) : b.user_id = last.args.user_id

\* C31: unlink_account calls the OAuth revoke operation at most once; it calls
\* it exactly when the ownership check has passed, the revoke flag is set and
\* both client credentials are supplied, and in no other case; the revoke call
\* comes before the deletion.
C31_RevokeOnceAfterOwnership ==
    Answering("unlink_account") =>
        /\ Cardinality(C31_Positions("revoke_token")) <= 1
        /\ (C31_Positions("revoke_token") # {})
               <=> (C31_OwnershipPassed /\ last.args.revoke_token /\ last.args.creds)
        /\ (last.revoke # "none") <=> (C31_Positions("revoke_token") # {})
        /\ \A r \in C31_Positions("revoke_token"), d \in C31_Positions("delete") : r < d

\* an owner's unlink with the flag and the credentials: revoke, then delete
C31_Witness ==
    /\ Answering("unlink_account")
    /\ C31_OwnershipPassed
    /\ last.args.revoke_token /\ last.args.creds
    /\ last.steps = <<"revoke_token", "delete", "commit">>
    /\ After(last.args.id) = {}

\* the caller's wallets and the transactions of the requested id, before the call
C32_CallerWallets == {w \in last.wallets_before : w.user_id = last.args.user_id}
C32_Requested == {t \in last.transactions_before : t.id.hex = last.args.transaction_id}

\* C32: get_transaction answers with a transaction's details only when the
\* transaction's wallet_id is the id of the caller's own wallet; a transaction
\* of another wallet is answered 403, a missing caller wallet or a missing
\* transaction 404, and the request changes no wallet, transaction or link.
C32_OwnTransactionsOnly ==
    Answering("get_transaction") =>
        /\ (last.body # None) =>
               /\ last.status_code = 200
               /\ \E w \in C32_CallerWallets, t \in C32_Requested :
                      /\ t.wallet_id = w.id
                      /\ Val(last.body).id = last.args.transaction_id
                      /\ Val(last.body).wallet_id = w.id.hex
        /\ (C32_CallerWallets = {} \/ C32_Requested = {}) => last.status_code = 404
        /\ (/\ C32_CallerWallets # {}
            /\ C32_Requested # {}
            /\ \A w \in C32_CallerWallets, t \in C32_Requested : t.wallet_id # w.id)
               => last.status_code = 403
        /\ wallets = last.wallets_before
        /\ transactions = last.transactions_before
        /\ links = last.before

\* a caller with a wallet asks for a transaction of another user's wallet
C32_Witness ==
    /\ Answering("get_transaction")
    /\ C32_CallerWallets # {}
    /\ \E t \in C32_Requested : t.wallet_id \notin {w.id : w \in C32_CallerWallets}
    /\ last.status_code = 403
    /\ last.body = None

\* the bucket a candidate belongs in: skipped when the loop skips it, failed
\* when its provider call gives no token response, success otherwise
C33_Bucket(b) ==
    IF b \in C14_Skippable THEN "skipped"
    ELSE IF b \in C13_Refreshed THEN "success"
    ELSE "failed"

C33_Counted(bucket) == {b \in C10_Candidates : C33_Bucket(b) = bucket}

\* C33: when refresh_all_tokens returns, each of its three counts is the number
\* of candidates of that bucket, every candidate being of exactly one bucket,
\* so that success + failed + skipped is the number of candidates selected.
C33_BucketsPartitionCandidates ==
    (Answering("refresh_all_tokens") /\ last.error = None)
    => /\ Val(last.ret).success = Cardinality(C33_Counted("success"))
       /\ Val(last.ret).failed = Cardinality(C33_Counted("failed"))
       /\ Val(last.ret).skipped = Cardinality(C33_Counted("skipped"))
       /\ Val(last.ret).success + Val(last.ret).failed + Val(last.ret).skipped
             = Cardinality(C10_Candidates)

\* a batch over a candidate that is skipped and one whose provider call raises
C33_Witness ==
    /\ Answering("refresh_all_tokens")
    /\ last.ret = Some([success |-> 0, failed |-> 1, skipped |-> 1])
    /\ Cardinality(C10_Candidates) = 2
    /\ C10_Throwing \ C14_Skippable # {}

\* the columns refresh_all_tokens may write
C34_TokenColumns == {"access_token", "refresh_token", "expires_at", "updated_at"}

\* C34: refresh_all_tokens changes nothing but the access token, refresh token,
\* expiry and updated_at of the candidates it counts as success: links not
\* selected and candidates failed or skipped keep every field, every other
\* field of every link is as before, and no link is created or deleted.
C34_BatchFrame ==
    Answering("refresh_all_tokens")
    => /\ {l.id : l \in links} = {b.id : b \in last.before}
       /\ Cardinality(links) = Cardinality(last.before)
       /\ \A b \in last.before :
             \E l \in After(b.id) :
                /\ \A c \in DOMAIN b \ C34_TokenColumns : l[c] = b[c]
                /\ b \notin C13_Refreshed => l = b

\* a batch in which one candidate was refreshed and one failed: the first has
\* new tokens and its other fields, the second is as it was
C34_Witness ==
    /\ Answering("refresh_all_tokens")
    /\ last.error = None
    /\ \E b \in C13_Refreshed : b \notin links
    /\ \E b \in C10_Throwing \ C14_Skippable : b \in links

\* C35: the tokens the provider issued for a candidate during a batch are on
\* that link once refresh_all_tokens has finished, whether it returned or
\* raised: neither another candidate's failure nor a failure of the commit at
\* the end of the batch discards them.
C35_IssuedTokensStored ==
    Answering("refresh_all_tokens")
    => \A b \in C13_Refreshed :
          \E l \in After(b.id) :
             get_access_token(l) = last.args.provider[b.id].access_token

\* C36: in every outcome of unlink_account, when its revoke call succeeded the
\* link is no longer in the table.
C36_RevokedLinkGone ==
    (Answering("unlink_account") /\ last.revoke = "ok")
    => After(last.args.id) = {}

\* C37: after disconnect_account(user, platform) has returned successfully the
\* user has no link left for that platform, whatever links the user made
\* before, several account ids of the platform included.
C37_NoLinkLeftForPlatform ==
    (Answering("disconnect_account") /\ last.error = None)
    => {l \in links : /\ l.user_id = last.args.user_id
                      /\ l.platform = C16_Lowercase(last.args.platform)} = {}

\* C38: a link refreshed by refresh_all_tokens has afterwards the expiry the
\* provider reported and never a null expiry, also when the response carried
\* an access token and no expiry.
C38_ExpiryKept ==
    (Answering("refresh_all_tokens") /\ last.error = None)
    => \A b \in C13_Refreshed :
          LET token_data == last.args.provider[b.id]
          IN  \E l \in After(b.id) :
                 /\ l.expires_at # None
                 /\ "expires_at" \in DOMAIN token_data
                    => l.expires_at = Some(token_data.expires_at)

====
